---- MODULE Spec2Model ----
(***************************************************************************)
(* Address-space tracking and symbol resolution of the samply profiler:    *)
(* fxprof-processed-profile's Process (process.rs) with the LibMappings    *)
(* and GlobalLibTable it drives, samply's perf-map loader                  *)
(* (shared/perf_map.rs), and the Windows recorder: the xperf session       *)
(* (windows/xperf.rs) and the launch loop of run (windows/profiler.rs).    *)
(***************************************************************************)
EXTENDS Integers, Sequences, FiniteSets, TLC

\* ------------------------------------------------------------------ bounds
\* Absolute addresses (avma) are 0 .. MaxAvma-1; range ends reach MaxAvma.
MaxAvma == 3

\* Lines of a perf map file are taken from PerfMapLines, at most MaxLines of them.
MaxLines == 2
\* u64 and u32 are modelled with U64Bits and U32Bits bits.
U64Bits == 13
U32Bits == 4
U64Modulus == 2 ^ U64Bits
U32Modulus == 2 ^ U32Bits

\* A process gets at most MaxThreads threads, with handles 0 .. MaxThreads.
MaxThreads == 2
\* Timestamps are 5 .. 5 + MaxTimestampOffset.
MaxTimestampOffset == 1

ThreadHandles == 0 .. MaxThreads
Timestamps == 5 .. (5 + MaxTimestampOffset)
\* process names and pids
Names == {"a", "b"}
Pids == {<<"1">>, <<"2">>, <<"1", "0">>}
Avmas == 0 .. (MaxAvma - 1)
AvmaEnds == 1 .. MaxAvma
\* relative_address_at_start values handed to add_mapping, for the process's
\* map and for the kernel map
RelativeOrigins == {16}
KernelRelativeOrigins == {32}
\* the LibraryInfo values that get interned
LibInfos == {"libA", "libB"}
\* the lines a perf map file is made of
PerfMapLines ==
    { <<"0", " ", "2", " ", "f">>,
      <<"1", " ", "2", " ", "g", " ", "h">>,
      <<"1", "f", "f", "f", " ", "2", " ", "k">>,
      <<"1", " ", "1", "f", " ", "m">>,
      <<"z", "z", " ", "2", " ", "f">> }
\* Lines handed to process_perf_map_line: every string of at most MaxLineLen
\* characters of ParseAlphabet, and the lines made of ParseFields and
\* ParseNames.
MaxLineLen == 5
ParseAlphabet == {"0", "1", "f", "x", "+", " "}
ParseFields ==
    { <<>>, <<"1">>, <<"1", "f">>, <<"1", "0", "0", "0">>, <<"2", "0">>,
      <<"0", "x", "1", "f">>, <<"0", "x", "0", "x", "1">>, <<"0", "x">>,
      <<"+", "1">>, <<"+">>, <<"0", "x", "+", "1">>, <<"+", "0", "x", "1">>,
      <<"x", "1">>, <<"z", "z">>, <<"f", "f", "f", "f">> }
ParseNames == { <<>>, <<"f", "o", "o">>, <<"g", " ", "h">>, <<" ">> }
RECURSIVE StringsUpTo(_)
StringsUpTo(n) ==
    IF n = 0 THEN {<<>>}
    ELSE StringsUpTo(n - 1)
         \cup {Append(t, c) : t \in {t \in StringsUpTo(n - 1) : Len(t) = n - 1},
                              c \in ParseAlphabet}
ParseLines ==
    StringsUpTo(MaxLineLen)
    \cup ParseFields
    \cup {a \o <<" ">> \o l : a \in ParseFields, l \in ParseFields}
    \cup {a \o <<" ">> \o l \o <<" ">> \o n :
             a \in ParseFields, l \in ParseFields, n \in ParseNames}

\* the functions a recycler knows from an earlier recording
RecycledFunctions ==
    { [symbol_name |-> <<"f">>, code_size |-> 2, lib_handle |-> 1,
       relative_address |-> 8] }

\* Option<T>: None is the empty set and Some(x) the set of x alone
None == {}
Some(x) == {x}
Unwrap(opt) == CHOOSE x \in opt : TRUE
\* the unit return value
Unit == "()"

VARIABLES
    \* struct Process
    pid, name, threads, main_thread, start_time, end_time, libs,
    \* Profile state handed to Process::convert_address
    kernel_libs, all_libs, used_libs,
    \* the value returned by the last call, with the call's name and arguments
    ret,
    \* history: the is_main argument of every add_thread call so far
    is_main_history,
    \* struct Xperf, and whether the value is live, unwinding or dropped
    xperf_state, xperf_path, xperf_lifetime,
    \* profiler::run: its position, its recording_mode argument, the
    \* iterations of the launch loop begun so far, and its locals pids, child
    \* and included_processes
    pc, recording_mode, iteration, pids, child, included_processes,
    \* history: what run did to xperf and to its children, in order
    events

vars == <<pid, name, threads, main_thread, start_time, end_time, libs,
          kernel_libs, all_libs, used_libs, ret, is_main_history,
          xperf_state, xperf_path, xperf_lifetime,
          pc, recording_mode, iteration, pids, child, included_processes,
          events>>

xperf_fields == <<xperf_state, xperf_path, xperf_lifetime>>

run_fields == <<pc, recording_mode, iteration, pids, child,
                included_processes, events>>

\* the state of the Windows recorder (windows/xperf.rs, windows/profiler.rs)
windows_vars == <<xperf_fields, run_fields>>

process_fields == <<pid, name, threads, main_thread, start_time, end_time,
                    is_main_history>>

\* ------------------------------------------------- LibMappings<T> (map)
\* A map is the set of its stored Mapping records; the BTreeMap key is
\* start_avma.
Mapping(start_avma, end_avma, relative_address_at_start, value) ==
    [start_avma |-> start_avma, end_avma |-> end_avma,
     relative_address_at_start |-> relative_address_at_start, value |-> value]

Max2(a, b) == IF a >= b THEN a ELSE b
Min2(a, b) == IF a <= b THEN a ELSE b

\* the address span of m intersects [start_avma, end_avma)
Intersects(m, start_avma, end_avma) ==
    Max2(m.start_avma, start_avma) < Min2(m.end_avma, end_avma)

\* the stored ranges add_mapping(start_avma, end_avma, ..) evicts
Evicted(map, start_avma, end_avma) ==
    {m \in map : Intersects(m, start_avma, end_avma) \/ m.start_avma = start_avma}

add_mapping(map, start_avma, end_avma, relative_address_at_start, value) ==
    (map \ Evicted(map, start_avma, end_avma))
        \cup {Mapping(start_avma, end_avma, relative_address_at_start, value)}

remove_mapping(map, start_avma) ==
    {m \in map : m.start_avma # start_avma}

clear(map) == {}

\* ordered lookup: the last mapping starting at or before avma, if avma is
\* below its end
lookup_impl(map, avma) ==
    LET before == {m \in map : m.start_avma <= avma}
    IN  IF before = {} THEN None
        ELSE LET last == CHOOSE m \in before :
                            \A o \in before : o.start_avma <= m.start_avma
             IN  IF avma < last.end_avma THEN Some(last) ELSE None

\* LibMappings::convert_address: Some((relative_address, value)) or None
map_convert_address(map, avma) ==
    LET found == lookup_impl(map, avma)
    IN  IF found = None THEN None
        ELSE LET mapping == Unwrap(found)
             IN  Some([relative_address |->
                           mapping.relative_address_at_start
                               + (avma - mapping.start_avma),
                       value |-> mapping.value])

\* ------------------------------------------------------ GlobalLibTable
\* all_libs: the interned LibraryInfo values, a handle is a position in it.
\* used_libs: the used libraries in first-use order, a used index is a
\* position in it, counted from 0.
IndexOf(seq, x) == CHOOSE i \in 1 .. Len(seq) : seq[i] = x
InSeq(seq, x) == \E i \in 1 .. Len(seq) : seq[i] = x

\* GlobalLibTable::handle_for_lib: <<handle, all_libs'>>
handle_for_lib(table, info) ==
    IF InSeq(table, info) THEN <<IndexOf(table, info), table>>
    ELSE <<Len(table) + 1, Append(table, info)>>

\* GlobalLibTable::index_for_used_lib: <<index, used_libs'>>
index_for_used_lib(used, lib_handle) ==
    IF InSeq(used, lib_handle) THEN <<IndexOf(used, lib_handle) - 1, used>>
    ELSE <<Len(used), Append(used, lib_handle)>>

\* ------------------------------------------------------------- Process
InLib(relative_address, global_lib_index) ==
    [kind |-> "InLib", relative_address |-> relative_address,
     global_lib_index |-> global_lib_index]
Unknown(address) == [kind |-> "Unknown", address |-> address]

\* a mutant: the process map is asked before the kernel map
convert_address_process_first(global_libs, kernel, own, address) ==
    LET p == map_convert_address(own, address)
        found == IF p # None THEN p ELSE map_convert_address(kernel, address)
    IN  IF found # None
        THEN LET hit == Unwrap(found)
                 used == index_for_used_lib(global_libs, hit.value)
             IN  <<InLib(hit.relative_address, used[1]), used[2]>>
        ELSE <<Unknown(address), global_libs>>

\* a mutant: the offset into the mapping is dropped on a miss and a hit
convert_address_no_address(global_libs, kernel, own, address) ==
    LET k == map_convert_address(kernel, address)
        found == IF k # None THEN k ELSE map_convert_address(own, address)
    IN  IF found # None
        THEN LET hit == Unwrap(found)
                 used == index_for_used_lib(global_libs, hit.value)
             IN  <<InLib(hit.relative_address - address, used[1]), used[2]>>
        ELSE <<Unknown(0), global_libs>>

\* a mutant: the library of the process's own mapping is marked used even
\* when the kernel map wins
convert_address_marks_own(global_libs, kernel, own, address) ==
    LET k == map_convert_address(kernel, address)
        p == map_convert_address(own, address)
        found == IF k # None THEN k ELSE p
    IN  IF found # None
        THEN LET first == IF p # None
                          THEN index_for_used_lib(global_libs, Unwrap(p).value)[2]
                          ELSE global_libs
                 hit == Unwrap(found)
                 used == index_for_used_lib(first, hit.value)
             IN  <<InLib(hit.relative_address, used[1]), used[2]>>
        ELSE <<Unknown(address), global_libs>>

\* a mutant: the library's handle is returned where its used index belongs
convert_address_index_by_handle(global_libs, kernel, own, address) ==
    LET k == map_convert_address(kernel, address)
        found == IF k # None THEN k ELSE map_convert_address(own, address)
    IN  IF found # None
        THEN LET hit == Unwrap(found)
                 used == index_for_used_lib(global_libs, hit.value)
             IN  <<InLib(hit.relative_address, hit.value - 1), used[2]>>
        ELSE <<Unknown(address), global_libs>>

\* Process::convert_address: <<InternalFrameAddress, used_libs'>>
convert_address(global_libs, kernel, own, address) ==
    LET k == map_convert_address(kernel, address)
        found == IF k # None THEN k ELSE map_convert_address(own, address)
    IN  IF found # None
        THEN LET hit == Unwrap(found)
                 used == index_for_used_lib(global_libs, hit.value)
             IN  <<InLib(hit.relative_address, used[1]), used[2]>>
        ELSE <<Unknown(address), global_libs>>

\* a mutant: the range is stored beside the ranges it overlaps
add_lib_mapping_no_eviction(own, lib, start_avma, end_avma, relative_address_at_start) ==
    own \cup {Mapping(start_avma, end_avma, relative_address_at_start, lib)}

\* a mutant: the relative address is not forwarded
add_lib_mapping_drops_origin(own, lib, start_avma, end_avma, relative_address_at_start) ==
    add_mapping(own, start_avma, end_avma, 0, lib)

add_lib_mapping(own, lib, start_avma, end_avma, relative_address_at_start) ==
    add_mapping(own, start_avma, end_avma, relative_address_at_start, lib)

\* a mutant: the mapping that contains the address is removed
remove_lib_mapping_containing(own, start_avma) ==
    {m \in own : ~(m.start_avma <= start_avma /\ start_avma < m.end_avma)}

remove_lib_mapping(own, start_avma) == remove_mapping(own, start_avma)

\* a mutant: only the first mapping is removed
remove_all_lib_mappings_first_only(own) ==
    IF own = {} THEN own
    ELSE own \ {CHOOSE m \in own : \A o \in own : m.start_avma <= o.start_avma}

remove_all_lib_mappings(own) == clear(own)

\* ------------------------------------------- perf_map.rs: line parsing
\* A str is the sequence of its characters.
HexDigits == <<"0", "1", "2", "3", "4", "5", "6", "7", "8", "9",
               "a", "b", "c", "d", "e", "f">>
IsHexDigit(c) == \E i \in 1 .. 16 : HexDigits[i] = c
HexDigitValue(c) == (CHOOSE i \in 1 .. 16 : HexDigits[i] = c) - 1

\* Process::new
new(new_name, new_pid, new_start_time) ==
    [pid |-> new_pid, threads |-> <<>>, main_thread |-> None, libs |-> {},
     start_time |-> new_start_time, end_time |-> None, name |-> new_name]

set_start_time(old_start_time, new_start_time) == new_start_time

\* a mutant: an end time that is set is kept
set_end_time_keeps_first(old_end_time, new_end_time) ==
    IF old_end_time # None THEN old_end_time ELSE Some(new_end_time)

set_end_time(old_end_time, new_end_time) == Some(new_end_time)

set_name(old_name, new_name) == new_name

\* Process::thread_handle_for_allocations
thread_handle_for_allocations(the_main_thread) == the_main_thread

\* Process::threads
get_threads(the_threads) == the_threads

\* a mutant: a main thread is put at the front of the list
add_thread_main_at_front(old_threads, old_main_thread, thread, is_main) ==
    <<IF is_main THEN <<thread>> \o old_threads ELSE Append(old_threads, thread),
      IF is_main /\ old_main_thread = None THEN Some(thread)
      ELSE old_main_thread>>

\* a mutant: the last thread added with is_main becomes the main thread
add_thread_last_is_main(old_threads, old_main_thread, thread, is_main) ==
    <<Append(old_threads, thread),
      IF is_main THEN Some(thread) ELSE old_main_thread>>

\* Process::add_thread: <<threads', main_thread'>>
add_thread(old_threads, old_main_thread, thread, is_main) ==
    <<Append(old_threads, thread),
      IF is_main /\ old_main_thread = None THEN Some(thread)
      ELSE old_main_thread>>

\* the byte of a character of a pid
CharCode(c) == CHOOSE i \in 1 .. 16 : HexDigits[i] = c

\* str::cmp: the bytes are compared from the left, a proper prefix is less
RECURSIVE str_cmp(_, _)
str_cmp(a, b) ==
    IF a = <<>> /\ b = <<>> THEN "Equal"
    ELSE IF a = <<>> THEN "Less"
    ELSE IF b = <<>> THEN "Greater"
    ELSE IF CharCode(Head(a)) < CharCode(Head(b)) THEN "Less"
    ELSE IF CharCode(Head(a)) > CharCode(Head(b)) THEN "Greater"
    ELSE str_cmp(Tail(a), Tail(b))

\* Timestamp::partial_cmp
partial_cmp(a, b) ==
    Some(IF a < b THEN "Less" ELSE IF a > b THEN "Greater" ELSE "Equal")

\* the number a pid of decimal digits spells
RECURSIVE DecimalNumber(_, _)
DecimalNumber(digits, acc) ==
    IF digits = <<>> THEN acc
    ELSE DecimalNumber(Tail(digits), acc * 10 + (CharCode(Head(digits)) - 1))

\* a mutant: equal start times are settled by the pids as numbers
cmp_for_json_order_numeric_pid(self, other) ==
    IF self.start_time # other.start_time
    THEN Unwrap(partial_cmp(self.start_time, other.start_time))
    ELSE Unwrap(partial_cmp(DecimalNumber(self.pid, 0),
                            DecimalNumber(other.pid, 0)))

\* Process::cmp_for_json_order
cmp_for_json_order(self, other) ==
    LET ordering == partial_cmp(self.start_time, other.start_time)
    IN  IF ordering # None /\ Unwrap(ordering) # "Equal" THEN Unwrap(ordering)
        ELSE str_cmp(self.pid, other.pid)

\* the position of the first space of s, 0 when it has none
FirstSpace(s) ==
    IF \E i \in 1 .. Len(s) : s[i] = " "
    THEN CHOOSE i \in 1 .. Len(s) :
             s[i] = " " /\ \A j \in 1 .. (i - 1) : s[j] # " "
    ELSE 0

\* str::splitn(3, ' '): the fields it yields
splitn3(line) ==
    LET i == FirstSpace(line)
    IN  IF i = 0 THEN <<line>>
        ELSE LET rest == SubSeq(line, i + 1, Len(line))
                 j == FirstSpace(rest)
             IN  IF j = 0 THEN <<SubSeq(line, 1, i - 1), rest>>
                 ELSE <<SubSeq(line, 1, i - 1), SubSeq(rest, 1, j - 1),
                        SubSeq(rest, j + 1, Len(rest))>>

\* str::trim_start_matches("0x"): every leading "0x" is removed
RECURSIVE trim_start_matches_0x(_)
trim_start_matches_0x(s) ==
    IF Len(s) >= 2 /\ s[1] = "0" /\ s[2] = "x"
    THEN trim_start_matches_0x(SubSeq(s, 3, Len(s)))
    ELSE s

\* the number the hex digits of s spell, stopped one past the u64 range
RECURSIVE HexNumber(_, _)
HexNumber(s, acc) ==
    IF s = <<>> THEN acc
    ELSE IF acc >= U64Modulus THEN U64Modulus
    ELSE HexNumber(Tail(s), acc * 16 + HexDigitValue(Head(s)))

\* u64::from_str_radix(s, 16).ok(): an optional "+", then one or more hex
\* digits, no overflow
from_str_radix_16(s) ==
    LET digits == IF s # <<>> /\ s[1] = "+" THEN Tail(s) ELSE s
    IN  IF digits = <<>> THEN None
        ELSE IF \E i \in 1 .. Len(digits) : ~IsHexDigit(digits[i]) THEN None
        ELSE IF HexNumber(digits, 0) >= U64Modulus THEN None
        ELSE Some(HexNumber(digits, 0))

\* str::split(' '): all the fields
RECURSIVE split_all(_)
split_all(line) ==
    LET i == FirstSpace(line)
    IN  IF i = 0 THEN <<line>>
        ELSE <<SubSeq(line, 1, i - 1)>> \o split_all(SubSeq(line, i + 1, Len(line)))

\* a mutant: the line is split at every space
process_perf_map_line_split_all(line) ==
    LET split == split_all(line)
    IN  IF Len(split) < 3 THEN None
        ELSE IF split[3] = <<>> THEN None
        ELSE LET addr == from_str_radix_16(trim_start_matches_0x(split[1]))
                 len == from_str_radix_16(trim_start_matches_0x(split[2]))
             IN  IF addr = None \/ len = None THEN None
                 ELSE Some([addr |-> Unwrap(addr), len |-> Unwrap(len),
                            symbol_name |-> split[3]])

\* a mutant: a line with an empty name is kept
process_perf_map_line_keeps_empty_name(line) ==
    LET split == splitn3(line)
    IN  IF Len(split) < 3 THEN None
        ELSE LET addr == from_str_radix_16(trim_start_matches_0x(split[1]))
                 len == from_str_radix_16(trim_start_matches_0x(split[2]))
             IN  IF addr = None \/ len = None THEN None
                 ELSE Some([addr |-> Unwrap(addr), len |-> Unwrap(len),
                            symbol_name |-> split[3]])

\* process_perf_map_line: Some((addr, len, symbol_name)) or None
process_perf_map_line(line) ==
    LET split == splitn3(line)
    IN  IF Len(split) < 3 THEN None
        ELSE IF split[3] = <<>> THEN None
        ELSE LET addr == from_str_radix_16(trim_start_matches_0x(split[1]))
                 len == from_str_radix_16(trim_start_matches_0x(split[2]))
             IN  IF addr = None \/ len = None THEN None
                 ELSE Some([addr |-> Unwrap(addr), len |-> Unwrap(len),
                            symbol_name |-> split[3]])

\* process_perf_map_line on each line of PerfMapLines, evaluated once
ParsedLine == [line \in PerfMapLines |-> process_perf_map_line(line)]

\* content.lines().filter_map(process_perf_map_line)
RECURSIVE filter_map_lines(_)
filter_map_lines(lines) ==
    IF lines = <<>> THEN <<>>
    ELSE LET parsed == ParsedLine[Head(lines)]
         IN  IF parsed = None THEN filter_map_lines(Tail(lines))
             ELSE <<Unwrap(parsed)>> \o filter_map_lines(Tail(lines))

\* ---------------------------------------- perf_map.rs: try_load_perf_map
\* JitFunctionRecycler::recycle: a function recorded before under the same
\* name and size keeps the (library, relative address) it had
recycle(recycler, symbol_name, code_size, lib_handle, relative_address) ==
    LET known == {e \in recycler :
                     e.symbol_name = symbol_name /\ e.code_size = code_size}
    IN  IF known = {} THEN <<lib_handle, relative_address>>
        ELSE LET e == CHOOSE e \in known : TRUE
             IN  <<e.lib_handle, e.relative_address>>

\* the loop's state before the first line
LoopStart == [panicked |-> FALSE, symbols |-> <<>>, mappings |-> {},
              cumulative_address |-> 0]

\* a mutant: the symbol is given the relative address the recycler returned
LoopBody_symbol_after_recycle(st, triple, lib_handle, recycler, overflow_checks) ==
    LET start_address == triple.addr
        end_sum == triple.addr + triple.len
        end_address == end_sum % U64Modulus
        code_size == triple.len % U32Modulus
        relative_address == st.cumulative_address
        cumulative_sum == st.cumulative_address + code_size
        chosen == IF recycler # None
                  THEN recycle(Unwrap(recycler), triple.symbol_name, code_size,
                               lib_handle, relative_address)
                  ELSE <<lib_handle, relative_address>>
    IN  IF st.panicked THEN st
        ELSE IF overflow_checks
                /\ (end_sum >= U64Modulus \/ cumulative_sum >= U32Modulus)
        THEN [st EXCEPT !.panicked = TRUE]
        ELSE [panicked |-> FALSE,
              symbols |-> Append(st.symbols,
                                 [address |-> chosen[2],
                                  size |-> Some(code_size),
                                  name |-> triple.symbol_name]),
              mappings |-> add_mapping(st.mappings, start_address, end_address,
                                       chosen[2], chosen[1]),
              cumulative_address |-> cumulative_sum % U32Modulus]

\* one pass of the loop body over a parsed line. With overflow checks (a
\* debug build) an overflowing + panics, without them it wraps.
LoopBody(st, triple, lib_handle, recycler, overflow_checks) ==
    LET start_address == triple.addr
        end_sum == triple.addr + triple.len
        end_address == end_sum % U64Modulus
        code_size == triple.len % U32Modulus
        relative_address == st.cumulative_address
        cumulative_sum == st.cumulative_address + code_size
        chosen == IF recycler # None
                  THEN recycle(Unwrap(recycler), triple.symbol_name, code_size,
                               lib_handle, relative_address)
                  ELSE <<lib_handle, relative_address>>
    IN  IF st.panicked THEN st
        ELSE IF overflow_checks
                /\ (end_sum >= U64Modulus \/ cumulative_sum >= U32Modulus)
        THEN [st EXCEPT !.panicked = TRUE]
        ELSE [panicked |-> FALSE,
              symbols |-> Append(st.symbols,
                                 [address |-> relative_address,
                                  size |-> Some(code_size),
                                  name |-> triple.symbol_name]),
              mappings |-> add_mapping(st.mappings, start_address, end_address,
                                       chosen[2], chosen[1]),
              cumulative_address |-> cumulative_sum % U32Modulus]

\* the loop's state after the first n parsed lines
RECURSIVE LoopAfter(_, _, _, _, _)
LoopAfter(triples, n, lib_handle, recycler, overflow_checks) ==
    IF n = 0 THEN LoopStart
    ELSE LoopBody(LoopAfter(triples, n - 1, lib_handle, recycler, overflow_checks),
                  triples[n], lib_handle, recycler, overflow_checks)

\* the LibraryInfo of the fake library, named after the pid
PerfMapLibInfo == "perf-1.map"

\* a mutant: the fake library is interned before the file is read
try_load_perf_map_interns_first(libs_table, file, recycler, overflow_checks) ==
    LET added == handle_for_lib(libs_table, PerfMapLibInfo)
        lib_handle == added[1]
        triples == IF file = None THEN <<>> ELSE filter_map_lines(Unwrap(file))
        st == LoopAfter(triples, Len(triples), lib_handle, recycler,
                        overflow_checks)
    IN  IF file = None
        THEN [all_libs |-> added[2], panicked |-> FALSE,
              set_lib_symbol_table |-> <<>>, value |-> None]
        ELSE IF st.panicked
             THEN [all_libs |-> added[2], panicked |-> TRUE,
                   set_lib_symbol_table |-> <<>>, value |-> None]
             ELSE [all_libs |-> added[2], panicked |-> FALSE,
                   set_lib_symbol_table |->
                       <<[lib |-> lib_handle, symbols |-> st.symbols]>>,
                   value |-> Some(st.mappings)]

\* try_load_perf_map(pid, profile, _, recycler) when /tmp/perf-<pid>.map
\* holds `file` (None: it cannot be read). The outcome: the handles interned,
\* the calls to Profile::set_lib_symbol_table, and the value returned.
try_load_perf_map(libs_table, file, recycler, overflow_checks) ==
    IF file = None
    THEN [all_libs |-> libs_table, panicked |-> FALSE,
          set_lib_symbol_table |-> <<>>, value |-> None]
    ELSE LET added == handle_for_lib(libs_table, PerfMapLibInfo)
             lib_handle == added[1]
             triples == filter_map_lines(Unwrap(file))
             st == LoopAfter(triples, Len(triples), lib_handle, recycler,
                             overflow_checks)
         IN  IF st.panicked
             THEN [all_libs |-> added[2], panicked |-> TRUE,
                   set_lib_symbol_table |-> <<>>, value |-> None]
             ELSE [all_libs |-> added[2], panicked |-> FALSE,
                   set_lib_symbol_table |->
                       <<[lib |-> lib_handle, symbols |-> st.symbols]>>,
                   value |-> Some(st.mappings)]

\* ------------------------------------------- Xperf (windows/xperf.rs)
\* Result<T, E>
Ok(x) == <<"Ok", x>>
Err(e) == <<"Err", e>>
is_ok(result) == result[1] = "Ok"
is_err(result) == result[1] = "Err"

\* A PathBuf with a file name is <<stem, extension>>; "" is no extension.
set_extension(path, extension) == <<path[1], extension>>
with_extension(path, extension) == set_extension(path, extension)

\* the output paths handed to start_xperf
OutputPaths == {<<"profile", "json">>, <<"out", "">>}
\* where which::which("xperf") finds xperf, if it does
XperfInstallations == {<<"xperf", "exe">>}
\* the providers coreclr_xperf_args(props) returns
UserProviders == {<<>>, <<"p", "q">>}

\* requested sampling intervals: the values within IntervalSpread of the
\* minimum, a tick above it, and the extremes. MaxIntervalNanos stands for
\* u64::MAX.
IntervalSpread == 1
MaxIntervalNanos == 1000000
MIN_INTERVAL_NANOS == 122100
NANOS_PER_TICK == 100
IntervalNanos ==
    {0, MaxIntervalNanos}
    \cup ((MIN_INTERVAL_NANOS - IntervalSpread)
              .. (MIN_INTERVAL_NANOS + IntervalSpread))
    \cup ((MIN_INTERVAL_NANOS + NANOS_PER_TICK - IntervalSpread)
              .. (MIN_INTERVAL_NANOS + NANOS_PER_TICK))

\* what the operating system does to one call: the result of
\* which::which("xperf"), whether the xperf commands can be spawned, and
\* whether remove_file succeeds on the two unmerged files
Environments ==
    [which : {None} \cup {Some(p) : p \in XperfInstallations},
     stop_spawns : BOOLEAN, start_spawns : BOOLEAN,
     remove_kernel_etl : BOOLEAN, remove_user_etl : BOOLEAN]

\* ElevatedRecordingProps
RecordingPropsSet ==
    [interval_nanos : IntervalNanos, vm_hack : BOOLEAN,
     user_providers : UserProviders]

\* enum XperfState
Stopped == <<"Stopped">>
RecordingKernelToFile(kernel_etl) == <<"RecordingKernelToFile", kernel_etl>>
RecordingKernelAndUserToFile(kernel_etl, user_etl) ==
    <<"RecordingKernelAndUserToFile", kernel_etl, user_etl>>

XPERF_NOT_FOUND_ERROR_MSG == <<"Could not find an xperf installation.">>
NOT_RUNNING_ERROR_MSG == <<"xperf wasn't running, can't stop it">>
delete_error(path) == <<"Failed to delete unmerged ETL file", path>>

\* Xperf::new
xperf_new == [state |-> Stopped, xperf_path |-> None]

is_running(state) ==
    state[1] \in {"RecordingKernelToFile", "RecordingKernelAndUserToFile"}

\* the Xperf after the call, and the call's result
get_xperf_path(self, which) ==
    IF self.xperf_path # None
    THEN [self |-> self, value |-> Ok(Unwrap(self.xperf_path))]
    ELSE IF which = None
         THEN [self |-> self, value |-> Err(XPERF_NOT_FOUND_ERROR_MSG)]
         ELSE [self |-> [self EXCEPT !.xperf_path = which],
               value |-> Ok(Unwrap(which))]

\* The outcome of a call on an Xperf: the Xperf after it, the xperf
\* commands it executed, the files it removed, its result, and whether it
\* panicked instead of returning.
Outcome(self, commands, removed, value, panicked) ==
    [self |-> self, commands |-> commands, removed |-> removed,
     value |-> value, panicked |-> panicked]

\* stop_xperf once the state is replaced and was a recording one
stop_recording(replaced, prev_state, env) ==
    LET kernel_etl == prev_state[2]
        user_etl == IF prev_state[1] = "RecordingKernelAndUserToFile"
                    THEN Some(prev_state[3]) ELSE None
        merged_etl == with_extension(kernel_etl, "etl")
        found == get_xperf_path(replaced, env.which)
    IN  IF is_err(found.value)
        THEN Outcome(found.self, <<>>, <<>>, found.value, FALSE)
        ELSE
        LET xperf == [program |-> found.value[2], verb |-> "-stop",
                      stop |-> IF user_etl # None
                               THEN Some("SamplySession") ELSE None,
                      d |-> merged_etl]
        IN  \* .expect: the command could not be executed
            IF ~env.stop_spawns
            THEN Outcome(found.self, <<>>, <<>>, Unit, TRUE)
            ELSE IF ~env.remove_kernel_etl
            THEN Outcome(found.self, <<xperf>>, <<>>,
                         Err(delete_error(kernel_etl)), FALSE)
            ELSE IF user_etl # None /\ ~env.remove_user_etl
            THEN Outcome(found.self, <<xperf>>, <<kernel_etl>>,
                         Err(delete_error(Unwrap(user_etl))), FALSE)
            ELSE Outcome(found.self, <<xperf>>,
                         IF user_etl # None
                         THEN <<kernel_etl, Unwrap(user_etl)>>
                         ELSE <<kernel_etl>>,
                         Ok(merged_etl), FALSE)

stop_xperf_replaces_late(self, env) ==
    LET prev_state == self.state
        replaced == [self EXCEPT !.state = Stopped]
    IN  IF prev_state[1] = "Stopped"
        THEN Outcome(replaced, <<>>, <<>>, Err(NOT_RUNNING_ERROR_MSG), FALSE)
        ELSE LET r == stop_recording(replaced, prev_state, env)
             IN  IF ~r.panicked /\ is_ok(r.value)
                 THEN r
                 ELSE [r EXCEPT !.self.state = prev_state]

stop_xperf_merges_when_stopped(self, env) ==
    LET prev_state == self.state
        replaced == [self EXCEPT !.state = Stopped]
    IN  IF prev_state[1] = "Stopped"
        THEN stop_recording(replaced,
                            RecordingKernelToFile(<<"", "unmerged-etl">>), env)
        ELSE stop_recording(replaced, prev_state, env)

stop_xperf(self, env) ==
    LET prev_state == self.state
        replaced == [self EXCEPT !.state = Stopped]
    IN  IF prev_state[1] = "Stopped"
        THEN Outcome(replaced, <<>>, <<>>, Err(NOT_RUNNING_ERROR_MSG), FALSE)
        ELSE stop_recording(replaced, prev_state, env)

\* slice::join("+")
RECURSIVE join(_)
join(strings) ==
    IF Len(strings) = 0 THEN <<>>
    ELSE IF Len(strings) = 1 THEN <<strings[1]>>
    ELSE <<strings[1], "+">> \o join(Tail(strings))

\* u64::clamp
clamp(x, min, max) == IF x < min THEN min ELSE IF x > max THEN max ELSE x

interval_ticks_unclamped(interval_nanos) == interval_nanos \div NANOS_PER_TICK

\* the tick count start_xperf hands to -SetProfInt
interval_ticks(interval_nanos) ==
    clamp(interval_nanos, MIN_INTERVAL_NANOS, MaxIntervalNanos)
        \div NANOS_PER_TICK

\* u64::to_string: the decimal digits, the most significant first
RECURSIVE to_string(_)
to_string(n) ==
    IF n < 10 THEN <<HexDigits[n + 1]>>
    ELSE to_string(n \div 10) \o <<HexDigits[(n % 10) + 1]>>

\* the xperf command line start_xperf builds
start_command(program, props, kernel_etl_file, user_etl_file) ==
    [program |-> program, verb |-> "-SetProfInt",
     SetProfInt |-> to_string(interval_ticks(props.interval_nanos)),
     on |-> IF ~props.vm_hack
            THEN <<"PROC_THREAD+LOADER+PROFILE+CSWITCH", "-stackwalk",
                   "PROFILE+CSWITCH">>
            ELSE <<"PROC_THREAD+LOADER+CSWITCH+SYSCALL+VIRT_ALLOC+OB_HANDLE",
                   "-stackwalk",
                   "CSWITCH+VirtualAlloc+VirtualFree+HandleCreate+HandleClose">>,
     f |-> kernel_etl_file,
     start |-> IF user_etl_file # None
               THEN Some([session |-> "SamplySession",
                          on |-> join(props.user_providers),
                          f |-> Unwrap(user_etl_file)])
               ELSE None]

start_xperf_without_stop(self, output_path, props, env) ==
    LET user_providers == props.user_providers
        found == get_xperf_path(self, env.which)
    IN  IF is_err(found.value)
        THEN Outcome(found.self, <<>>, <<>>, found.value, FALSE)
        ELSE
        LET kernel_etl_file == set_extension(output_path, "unmerged-etl")
            user_etl_file ==
                IF Len(user_providers) # 0
                THEN Some(set_extension(kernel_etl_file, "user-unmerged-etl"))
                ELSE None
            xperf == start_command(found.value[2], props, kernel_etl_file,
                                   user_etl_file)
        IN  IF ~env.start_spawns
            THEN Outcome(found.self, <<>>, <<>>, Unit, TRUE)
            ELSE Outcome(
                     [found.self EXCEPT !.state =
                         IF user_etl_file # None
                         THEN RecordingKernelAndUserToFile(
                                  kernel_etl_file, Unwrap(user_etl_file))
                         ELSE RecordingKernelToFile(kernel_etl_file)],
                     <<xperf>>, <<>>, Ok(Unit), FALSE)

start_xperf(self, output_path, props, env) ==
    LET \* let _ = self.stop_xperf(): the result is dropped, a panic is not
        stopping == IF is_running(self.state)
                    THEN stop_xperf(self, env)
                    ELSE Outcome(self, <<>>, <<>>, Unit, FALSE)
    IN  IF stopping.panicked
        THEN stopping
        ELSE
        LET user_providers == props.user_providers
            found == get_xperf_path(stopping.self, env.which)
        IN  IF is_err(found.value)
            THEN Outcome(found.self, stopping.commands, stopping.removed,
                         found.value, FALSE)
            ELSE
            LET kernel_etl_file == set_extension(output_path, "unmerged-etl")
                user_etl_file ==
                    IF Len(user_providers) # 0
                    THEN Some(set_extension(kernel_etl_file,
                                            "user-unmerged-etl"))
                    ELSE None
                xperf == start_command(found.value[2], props, kernel_etl_file,
                                       user_etl_file)
            IN  \* .expect: the command could not be executed
                IF ~env.start_spawns
                THEN Outcome(found.self, stopping.commands, stopping.removed,
                             Unit, TRUE)
                ELSE Outcome(
                         [found.self EXCEPT !.state =
                             IF user_etl_file # None
                             THEN RecordingKernelAndUserToFile(
                                      kernel_etl_file, Unwrap(user_etl_file))
                             ELSE RecordingKernelToFile(kernel_etl_file)],
                         Append(stopping.commands, xperf), stopping.removed,
                         Ok(Unit), FALSE)

\* Drop for Xperf
drop(self, env) == stop_xperf(self, env)

\* ------------------------------------------------------------- actions
Handles == 1 .. Len(all_libs)

\* the addresses the map resolves
Covered(map) == {a \in Avmas : \E m \in map : m.start_avma <= a /\ a < m.end_avma}

\* Profile::add_lib
AddLib ==
    \E info \in LibInfos :
        LET r == handle_for_lib(all_libs, info)
        IN  /\ all_libs' = r[2]
            /\ ret' = [op |-> "add_lib", value |-> r[1]]
            /\ UNCHANGED <<windows_vars, process_fields, libs, kernel_libs, used_libs>>

AddLibMapping ==
    \E lib \in Handles, start_avma \in Avmas, end_avma \in AvmaEnds,
       rel \in RelativeOrigins :
        /\ start_avma < end_avma
        /\ libs' = add_lib_mapping(libs, lib, start_avma, end_avma, rel)
        /\ ret' = [op |-> "add_lib_mapping",
                   \* an existing mapping covered a part of the new range and
                   \* addresses outside it
                   partial_overlap |->
                       \E m \in libs :
                           /\ Intersects(m, start_avma, end_avma)
                           /\ m.start_avma < start_avma \/ end_avma < m.end_avma,
                   value |-> Unit]
        /\ UNCHANGED <<windows_vars, process_fields, kernel_libs, all_libs, used_libs>>

RemoveLibMapping ==
    \E start_avma \in Avmas :
        /\ libs' = remove_lib_mapping(libs, start_avma)
        /\ ret' = [op |-> "remove_lib_mapping", start_avma |-> start_avma,
                   value |-> Unit]
        /\ UNCHANGED <<windows_vars, process_fields, kernel_libs, all_libs, used_libs>>

RemoveAllLibMappings ==
    /\ libs' = remove_all_lib_mappings(libs)
    /\ ret' = [op |-> "remove_all_lib_mappings", resolvable |-> Covered(libs),
               value |-> Unit]
    /\ UNCHANGED <<windows_vars, process_fields, kernel_libs, all_libs, used_libs>>

\* Profile::add_kernel_lib_mapping
AddKernelLibMapping ==
    \E lib \in Handles, start_avma \in Avmas, end_avma \in AvmaEnds,
       rel \in KernelRelativeOrigins :
        /\ start_avma < end_avma
        \* the kernel map is filled with one mapping at a time
        /\ kernel_libs \ Evicted(kernel_libs, start_avma, end_avma) = {}
        /\ kernel_libs' = add_mapping(kernel_libs, start_avma, end_avma, rel, lib)
        /\ ret' = [op |-> "add_kernel_lib_mapping", value |-> Unit]
        /\ UNCHANGED <<windows_vars, process_fields, libs, all_libs, used_libs>>

\* Profile::remove_kernel_lib_mapping
RemoveKernelLibMapping ==
    \E start_avma \in Avmas :
        /\ kernel_libs' = remove_mapping(kernel_libs, start_avma)
        /\ ret' = [op |-> "remove_kernel_lib_mapping", value |-> Unit]
        /\ UNCHANGED <<windows_vars, process_fields, libs, all_libs, used_libs>>

ConvertAddress ==
    \E address \in Avmas :
        LET r == convert_address(used_libs, kernel_libs, libs, address)
        IN  /\ used_libs' = r[2]
            /\ ret' = [op |-> "convert_address", address |-> address,
                       value |-> r[1]]
            /\ UNCHANGED <<windows_vars, process_fields, libs, kernel_libs, all_libs>>

\* the perf map files of at most MaxLines lines, and no file
RECURSIVE LinesUpTo(_)
LinesUpTo(n) ==
    IF n = 0 THEN {<<>>}
    ELSE LinesUpTo(n - 1)
         \cup {Append(c, l) : c \in {c \in LinesUpTo(n - 1) : Len(c) = n - 1},
                              l \in PerfMapLines}
PerfMapFiles == {None} \cup {Some(c) : c \in LinesUpTo(MaxLines)}

\* the recycler argument: none, or one that knows functions of a library
\* interned before
Recyclers ==
    {None} \cup (IF Len(all_libs) >= 1 THEN {Some(RecycledFunctions)} ELSE {})

\* ret keeps the last call only, so a load that follows a load is left out:
\* it reaches what a load after add_lib reaches
TryLoadPerfMap ==
    /\ ret.op # "try_load_perf_map"
    /\ \E file \in PerfMapFiles, recycler \in Recyclers, overflow_checks \in BOOLEAN :
        LET r == try_load_perf_map(all_libs, file, recycler, overflow_checks)
        IN  /\ all_libs' = r.all_libs
            /\ ret' = [op |-> "try_load_perf_map", file |-> file,
                       recycler |-> recycler,
                       overflow_checks |-> overflow_checks,
                       panicked |-> r.panicked,
                       set_lib_symbol_table |-> r.set_lib_symbol_table,
                       value |-> r.value]
            /\ UNCHANGED <<windows_vars, process_fields, libs, kernel_libs, used_libs>>

\* ret keeps the last call only, so a parse that follows a parse is left out
ProcessPerfMapLine ==
    /\ ret.op # "process_perf_map_line"
    /\ \E line \in ParseLines :
           ret' = [op |-> "process_perf_map_line", line |-> line,
                   value |-> process_perf_map_line(line)]
    /\ UNCHANGED <<windows_vars, process_fields, libs, kernel_libs, all_libs, used_libs>>

\* ------------------------------------------- actions on the Process fields
SetStartTime ==
    \E t \in Timestamps :
        /\ start_time' = set_start_time(start_time, t)
        /\ ret' = [op |-> "set_start_time", value |-> Unit]
        /\ UNCHANGED <<windows_vars, pid, name, threads, main_thread, end_time,
                       is_main_history, libs, kernel_libs, all_libs, used_libs>>

SetEndTime ==
    \E t \in Timestamps :
        /\ end_time' = set_end_time(end_time, t)
        /\ ret' = [op |-> "set_end_time", end_time |-> t, replaced |-> end_time,
                   value |-> Unit]
        /\ UNCHANGED <<windows_vars, pid, name, threads, main_thread, start_time,
                       is_main_history, libs, kernel_libs, all_libs, used_libs>>

SetName ==
    \E n \in Names :
        /\ name' = set_name(name, n)
        /\ ret' = [op |-> "set_name", value |-> Unit]
        /\ UNCHANGED <<windows_vars, pid, threads, main_thread, start_time, end_time,
                       is_main_history, libs, kernel_libs, all_libs, used_libs>>

\* Profile::add_thread hands every thread a handle of its own
AddThread ==
    \E thread \in ThreadHandles, is_main \in BOOLEAN :
        /\ Len(threads) < MaxThreads
        /\ ~InSeq(threads, thread)
        /\ LET r == add_thread(threads, main_thread, thread, is_main)
           IN  /\ threads' = r[1]
               /\ main_thread' = r[2]
        /\ is_main_history' = Append(is_main_history, is_main)
        /\ ret' = [op |-> "add_thread", thread |-> thread, value |-> Unit]
        /\ UNCHANGED <<windows_vars, pid, name, start_time, end_time, libs, kernel_libs,
                       all_libs, used_libs>>

ThreadHandleForAllocations ==
    /\ ret' = [op |-> "thread_handle_for_allocations",
               value |-> thread_handle_for_allocations(main_thread)]
    /\ UNCHANGED <<windows_vars, process_fields, libs, kernel_libs, all_libs, used_libs>>

GetThreads ==
    /\ ret' = [op |-> "threads", value |-> get_threads(threads)]
    /\ UNCHANGED <<windows_vars, process_fields, libs, kernel_libs, all_libs, used_libs>>

\* the process as a value
Self ==
    [pid |-> pid, threads |-> threads, main_thread |-> main_thread,
     libs |-> libs, start_time |-> start_time, end_time |-> end_time,
     name |-> name]

\* the other processes of the profile: fresh ones, and ones that have a
\* name, an end time, a thread and a mapping of their own
OtherProcesses ==
    {new("a", p, t) : p \in Pids, t \in Timestamps}
    \cup {[pid |-> p, threads |-> <<0>>, main_thread |-> Some(0),
           libs |-> {Mapping(0, 1, 0, 1)}, start_time |-> t,
           end_time |-> Some(5), name |-> "z"] : p \in Pids, t \in Timestamps}

CmpForJsonOrder ==
    \E other \in OtherProcesses :
        /\ ret' = [op |-> "cmp_for_json_order", other |-> other,
                   value |-> cmp_for_json_order(Self, other)]
        /\ UNCHANGED <<windows_vars, process_fields, libs, kernel_libs, all_libs, used_libs>>

\* the mapping calls on the one range [0, 1)
AddLibMappingAtZero ==
    \E lib \in Handles, rel \in RelativeOrigins :
        /\ libs' = add_lib_mapping(libs, lib, 0, 1, rel)
        /\ ret' = [op |-> "add_lib_mapping", partial_overlap |-> FALSE,
                   value |-> Unit]
        /\ UNCHANGED <<windows_vars, process_fields, kernel_libs, all_libs, used_libs>>

RemoveLibMappingAtZero ==
    /\ libs' = remove_lib_mapping(libs, 0)
    /\ ret' = [op |-> "remove_lib_mapping", start_avma |-> 0, value |-> Unit]
    /\ UNCHANGED <<windows_vars, process_fields, kernel_libs, all_libs, used_libs>>

ConvertAddressZero ==
    LET r == convert_address(used_libs, kernel_libs, libs, 0)
    IN  /\ used_libs' = r[2]
        /\ ret' = [op |-> "convert_address", address |-> 0, value |-> r[1]]
        /\ UNCHANGED <<windows_vars, process_fields, libs, kernel_libs, all_libs>>

\* ------------------------------------------------- actions on the Xperf
XperfSelf == [state |-> xperf_state, xperf_path |-> xperf_path]

\* The environments that differ for a call on the Xperf as it is: nothing
\* is stopped or removed unless it is running, no user file is removed
\* unless one is recorded, and which is not asked once the path is cached.
RelevantEnvironments ==
    {env \in Environments :
        /\ ~is_running(xperf_state)
               => env.stop_spawns /\ env.remove_kernel_etl
        /\ xperf_state[1] # "RecordingKernelAndUserToFile"
               => env.remove_user_etl
        /\ xperf_path # None => env.which # None}

\* the Xperf and its lifetime after a call with outcome r
XperfAfter(r) ==
    /\ xperf_state' = r.self.state
    /\ xperf_path' = r.self.xperf_path
    /\ xperf_lifetime' = IF r.panicked THEN "unwinding" ELSE "live"

\* Xperf::new, once the previous value is gone
NewXperf ==
    /\ xperf_lifetime = "dropped"
    /\ xperf_state' = xperf_new.state
    /\ xperf_path' = xperf_new.xperf_path
    /\ xperf_lifetime' = "live"
    /\ ret' = [op |-> "xperf_new", value |-> Unit]
    /\ UNCHANGED <<process_fields, libs, kernel_libs, all_libs, used_libs,
                   run_fields>>

StartXperf ==
    /\ xperf_lifetime = "live"
    /\ \E output_path \in OutputPaths, props \in RecordingPropsSet,
          env \in RelevantEnvironments :
           LET r == start_xperf(XperfSelf, output_path, props, env)
           IN  /\ XperfAfter(r)
               /\ ret' = [op |-> "start_xperf", output_path |-> output_path,
                          props |-> props, prev_state |-> xperf_state,
                          commands |-> r.commands, removed |-> r.removed,
                          panicked |-> r.panicked, value |-> r.value]
    /\ UNCHANGED <<process_fields, libs, kernel_libs, all_libs, used_libs,
                   run_fields>>

StopXperf ==
    /\ xperf_lifetime = "live"
    /\ \E env \in RelevantEnvironments :
           LET r == stop_xperf(XperfSelf, env)
           IN  /\ XperfAfter(r)
               /\ ret' = [op |-> "stop_xperf", prev_state |-> xperf_state,
                          commands |-> r.commands, removed |-> r.removed,
                          panicked |-> r.panicked, value |-> r.value]
    /\ UNCHANGED <<process_fields, libs, kernel_libs, all_libs, used_libs,
                   run_fields>>

\* the Xperf goes out of scope, or is dropped while a panic unwinds
DropXperf ==
    /\ xperf_lifetime \in {"live", "unwinding"}
    /\ \E env \in RelevantEnvironments :
           LET r == drop(XperfSelf, env)
           IN  /\ xperf_state' = r.self.state
               /\ xperf_path' = r.self.xperf_path
               /\ xperf_lifetime' = "dropped"
               /\ ret' = [op |-> "drop", prev_state |-> xperf_state,
                          commands |-> r.commands, removed |-> r.removed,
                          panicked |-> r.panicked, value |-> r.value]
    /\ UNCHANGED <<process_fields, libs, kernel_libs, all_libs, used_libs,
                   run_fields>>

\* ----------------------------------------- run (windows/profiler.rs)
\* Launch modes run the command at most MaxIterations times.
MaxIterations == 3
\* the ids the operating system gives to the children; an id is free again
\* once its process is gone
ChildPids == {100, 101}
\* the exit codes of a child
ExitCodes == {0, 1}
\* ExitStatus::success
success(exit_status) == exit_status = 0

\* enum RecordingMode, with the fields of ProcessLaunchProps the loop reads
All == <<"All">>
Pid(p) == <<"Pid", p>>
Launch(process_launch_props) == <<"Launch", process_launch_props>>
RecordingModes ==
    {All}
    \cup {Pid(p) : p \in ChildPids}
    \cup {Launch([iteration_count |-> n, ignore_exit_code |-> i]) :
              n \in 0 .. MaxIterations, i \in BOOLEAN}

IncludedProcesses(name_substrings, included_pids) ==
    [name_substrings |-> name_substrings, pids |-> included_pids]

\* the for loop has iterations left
has_next(process_launch_props, begun) ==
    begun < process_launch_props.iteration_count

\* the loop is left after a child's exit
should_break_never(process_launch_props, exit_status) == FALSE
should_break(process_launch_props, exit_status) ==
    ~process_launch_props.ignore_exit_code /\ ~success(exit_status)

\* the pid list after a spawn
push(vec, p) == Append(vec, p)

\* run is entered: the elevated helper is created and told to start xperf
\* (both results unwrapped), and the arm of the recording mode is entered
RunStartXperf ==
    /\ pc = "run"
    /\ \E mode \in RecordingModes, helper_started \in BOOLEAN,
          started \in BOOLEAN :
           /\ recording_mode' = mode
           /\ IF ~helper_started
              THEN /\ pc' = "panicked"
                   /\ events' = events
              ELSE /\ events' = Append(events, <<"start_xperf">>)
                   /\ pc' = IF ~started THEN "panicked"
                            ELSE IF mode[1] = "Launch" THEN "for"
                            ELSE "ctrl_c"
    /\ UNCHANGED <<iteration, pids, child, included_processes>>
    /\ UNCHANGED <<process_fields, libs, kernel_libs, all_libs, used_libs,
                   ret, xperf_fields>>

\* RecordingMode::All and RecordingMode::Pid: Ctrl+C is received
CtrlCReceived ==
    /\ pc = "ctrl_c"
    /\ included_processes' =
           IF recording_mode[1] = "Pid"
           THEN Some(IncludedProcesses(<<>>, <<recording_mode[2]>>))
           ELSE None
    /\ pc' = "stop_xperf"
    /\ UNCHANGED <<recording_mode, iteration, pids, child, events>>
    /\ UNCHANGED <<process_fields, libs, kernel_libs, all_libs, used_libs,
                   ret, xperf_fields>>

\* the head of the launch loop and, in an iteration, the spawn of the child
\* and the push of its id
Spawn ==
    /\ pc = "for"
    /\ IF has_next(recording_mode[2], iteration)
       THEN \E spawned \in {None} \cup {Some(p) : p \in ChildPids} :
                /\ iteration' = iteration + 1
                /\ IF spawned = None
                   THEN /\ pc' = "panicked"
                        /\ UNCHANGED <<pids, child, events>>
                   ELSE /\ child' = spawned
                        /\ pids' = push(pids, Unwrap(spawned))
                        /\ events' =
                               Append(events, <<"spawn", Unwrap(spawned)>>)
                        /\ pc' = "wait"
       ELSE /\ pc' = "after_loop"
            /\ UNCHANGED <<iteration, pids, child, events>>
    /\ UNCHANGED <<recording_mode, included_processes>>
    /\ UNCHANGED <<process_fields, libs, kernel_libs, all_libs, used_libs,
                   ret, xperf_fields>>

\* child.wait() returns, and the exit status decides whether the loop goes
\* on; the child is dropped at the end of the iteration
Wait ==
    /\ pc = "wait"
    /\ \E waited \in {None} \cup {Some(c) : c \in ExitCodes} :
           IF waited = None
           THEN /\ pc' = "panicked"
                /\ UNCHANGED <<child, events>>
           ELSE /\ events' = Append(events, <<"exit", Unwrap(child),
                                              success(Unwrap(waited))>>)
                /\ child' = None
                /\ pc' = IF should_break(recording_mode[2], Unwrap(waited))
                         THEN "after_loop" ELSE "for"
    /\ UNCHANGED <<recording_mode, iteration, pids, included_processes>>
    /\ UNCHANGED <<process_fields, libs, kernel_libs, all_libs, used_libs,
                   ret, xperf_fields>>

\* after the loop the pid list becomes the included processes
AfterLoop ==
    /\ pc = "after_loop"
    /\ included_processes' = Some(IncludedProcesses(<<>>, pids))
    /\ pc' = "stop_xperf"
    /\ UNCHANGED <<recording_mode, iteration, pids, child, events>>
    /\ UNCHANGED <<process_fields, libs, kernel_libs, all_libs, used_libs,
                   ret, xperf_fields>>

\* the elevated helper is told to stop xperf; without a merged file run
\* panics, with one it goes on to process the trace
RunStopXperf ==
    /\ pc = "stop_xperf"
    /\ events' = Append(events, <<"stop_xperf">>)
    /\ \E stopped \in BOOLEAN :
           pc' = IF stopped THEN "process_etl" ELSE "panicked"
    /\ UNCHANGED <<recording_mode, iteration, pids, child,
                   included_processes>>
    /\ UNCHANGED <<process_fields, libs, kernel_libs, all_libs, used_libs,
                   ret, xperf_fields>>

InitRun ==
    /\ pc = "run"
    /\ recording_mode = All
    /\ iteration = 0
    /\ pids = <<>>
    /\ child = None
    /\ included_processes = None
    /\ events = <<>>

InitXperf ==
    /\ xperf_state = xperf_new.state
    /\ xperf_path = xperf_new.xperf_path
    /\ xperf_lifetime = "live"

\* the process is Process::new(new_name, new_pid, new_start_time)
InitProcess(new_name, new_pid, new_start_time) ==
    LET process == new(new_name, new_pid, new_start_time)
    IN  /\ pid = process.pid
        /\ name = process.name
        /\ threads = process.threads
        /\ main_thread = process.main_thread
        /\ start_time = process.start_time
        /\ end_time = process.end_time
        /\ libs = process.libs
        /\ is_main_history = <<>>

InitProfile ==
    /\ kernel_libs = {}
    /\ all_libs = <<>>
    /\ used_libs = <<>>
    /\ ret = [op |-> "new", value |-> Unit]

InitWindows == InitXperf /\ InitRun

Init ==
    /\ InitProcess("a", <<"1">>, 5)
    /\ InitProfile
    /\ InitWindows

Next ==
    \/ AddLib
    \/ AddLibMapping
    \/ RemoveLibMapping
    \/ RemoveAllLibMappings
    \/ AddKernelLibMapping
    \/ RemoveKernelLibMapping
    \/ ConvertAddress

Spec == Init /\ [][Next]_vars

\* the perf map loader on a profile that interns libraries
NextPerfMap ==
    \/ AddLib
    \/ TryLoadPerfMap

SpecPerfMap == Init /\ [][NextPerfMap]_vars

\* the two users of LibMappings::add_mapping: the process's map and the
\* loader's. The loader reads no mapping of the process, so it is run
\* before the process's map is filled.
NextMappings ==
    \/ AddLib
    \/ AddLibMapping
    \/ RemoveLibMapping
    \/ (libs = {} /\ TryLoadPerfMap)

SpecMappings == Init /\ [][NextMappings]_vars

\* the line parser on its own
NextParse == ProcessPerfMapLine

SpecParse == Init /\ [][NextParse]_vars

\* every mutator of one process
NextProcess ==
    \/ SetStartTime
    \/ SetEndTime
    \/ SetName
    \/ AddThread
    \/ ThreadHandleForAllocations
    \/ GetThreads
    \/ AddLib
    \/ AddLibMappingAtZero
    \/ RemoveLibMappingAtZero
    \/ RemoveAllLibMappings
    \/ ConvertAddressZero

SpecProcess == Init /\ [][NextProcess]_vars

\* processes of any name, pid and start time, compared with the others
InitOrder ==
    /\ \E n \in Names, p \in Pids, t \in Timestamps : InitProcess(n, p, t)
    /\ InitProfile
    /\ InitWindows

NextOrder ==
    \/ SetStartTime
    \/ SetEndTime
    \/ SetName
    \/ AddThread
    \/ CmpForJsonOrder

SpecOrder == InitOrder /\ [][NextOrder]_vars

\* the calls on one Xperf, and on the ones created after it is dropped
NextXperf ==
    \/ NewXperf
    \/ StartXperf
    \/ StopXperf
    \/ DropXperf

SpecXperf == Init /\ [][NextXperf]_vars

\* one call of profiler::run
NextRun ==
    \/ RunStartXperf
    \/ CtrlCReceived
    \/ Spawn
    \/ Wait
    \/ AfterLoop
    \/ RunStopXperf

SpecRun == Init /\ [][NextRun]_vars

\* ---------------------------------------------------------- properties
Covers(m, a) == m.start_avma <= a /\ a < m.end_avma

\* the used index of a library that has one
UsedIndex(lib) == IndexOf(used_libs, lib) - 1

\* the frame address a resolution through mapping m gives for address a
FrameVia(m, a) ==
    InLib(m.relative_address_at_start + (a - m.start_avma), UsedIndex(m.value))

\* the stored mapping that decides address a: the kernel map's if it has one
DecidingMappings(a) ==
    IF \E k \in kernel_libs : Covers(k, a)
    THEN {k \in kernel_libs : Covers(k, a)}
    ELSE {m \in libs : Covers(m, a)}

\* C1: an address covered by a kernel mapping resolves to the kernel
\* mapping's relative address and library index, whether or not the
\* process's own map covers it too.
C1_KernelPrecedence ==
    ret.op = "convert_address" =>
        \A k \in kernel_libs :
            Covers(k, ret.address) =>
                /\ InSeq(used_libs, k.value)
                /\ ret.value = FrameVia(k, ret.address)

C1_Witness ==
    /\ ret.op = "convert_address"
    /\ \E k \in kernel_libs, m \in libs :
        /\ Covers(k, ret.address) /\ Covers(m, ret.address)
        /\ k.value # m.value
        /\ ret.value.kind = "InLib"
        /\ ret.value.relative_address =
               k.relative_address_at_start + (ret.address - k.start_avma)

\* C2 as stated: an address inside a stored range of the process's map
\* resolves to InLib through that range, and an address in no stored range of
\* either map resolves to Unknown(address).
C2_Original ==
    ret.op = "convert_address" =>
        /\ \A m \in libs :
               Covers(m, ret.address) =>
                   InSeq(used_libs, m.value) /\ ret.value = FrameVia(m, ret.address)
        /\ (\A m \in kernel_libs \cup libs : ~Covers(m, ret.address)) =>
               ret.value = Unknown(ret.address)

\* C2 amended: an address inside a stored range of the kernel map resolves to
\* InLib(relative_origin + (address - start), index) through that range;
\* otherwise an address inside a stored range of the process's map resolves
\* to InLib through that range; an address in no stored range of either map
\* resolves to Unknown(address); there is no third outcome.
C2_Resolve ==
    ret.op = "convert_address" =>
        IF DecidingMappings(ret.address) # {}
        THEN \E m \in DecidingMappings(ret.address) :
                 /\ InSeq(used_libs, m.value)
                 /\ ret.value = FrameVia(m, ret.address)
        ELSE ret.value = Unknown(ret.address)

C2_Witness ==
    /\ ret.op = "convert_address"
    /\ Cardinality(libs) >= 2
    /\ \E m \in libs :
        /\ Covers(m, ret.address)
        /\ m.start_avma < ret.address
        /\ \A k \in kernel_libs : ~Covers(k, ret.address)
        /\ ret.value = FrameVia(m, ret.address)

\* the fake library's handle during the load that ret reports
LoadedLibHandle == handle_for_lib(all_libs, PerfMapLibInfo)[1]

NonOverlapping(map) ==
    \A m1 \in map, m2 \in map :
        m1 # m2 => \A a \in Avmas : ~(Covers(m1, a) /\ Covers(m2, a))

C4_NonOverlapping == NonOverlapping(libs) /\ NonOverlapping(kernel_libs)

C4_Witness ==
    /\ ret.op = "add_lib_mapping"
    /\ ret.partial_overlap
    /\ Cardinality(libs) >= 2

\* C5: remove_lib_mapping(start) removes the stored range that starts at
\* start and no other; when no stored range starts there it returns
\* normally and changes nothing but the returned value.
C5_RemoveExact ==
    [][ret'.op = "remove_lib_mapping" =>
           /\ ret'.value = Unit
           /\ \A m \in libs : m \in libs' <=> m.start_avma # ret'.start_avma
           /\ libs' \subseteq libs
           /\ (\A m \in libs : m.start_avma # ret'.start_avma) =>
                  /\ UNCHANGED <<libs, kernel_libs, all_libs, used_libs,
                                 process_fields>>
                  /\ \A a \in Avmas :
                         convert_address(used_libs', kernel_libs', libs', a)
                             = convert_address(used_libs, kernel_libs, libs, a)
       ]_vars

C5_Witness ==
    /\ ret.op = "remove_lib_mapping"
    /\ \E m \in libs : m.start_avma < ret.start_avma /\ ret.start_avma < m.end_avma

\* C6 as stated: after remove_all_lib_mappings every address the process's
\* map resolved before resolves to Unknown.
C6_Original ==
    ret.op = "remove_all_lib_mappings" =>
        \A a \in ret.resolvable :
            convert_address(used_libs, kernel_libs, libs, a)[1] = Unknown(a)

\* C6 amended: after remove_all_lib_mappings the process's map resolves no
\* address, and while it stays empty every address resolves to Unknown
\* unless the kernel map covers it, in which case it resolves through the
\* kernel mapping.
C6_ClearThenUnknown ==
    /\ ret.op = "remove_all_lib_mappings" => libs = {}
    /\ libs = {} =>
        \A a \in Avmas :
            /\ map_convert_address(libs, a) = None
            /\ LET value == convert_address(used_libs, kernel_libs, libs, a)[1]
               IN  IF \E k \in kernel_libs : Covers(k, a)
                   THEN value.kind = "InLib"
                   ELSE value = Unknown(a)

C6_Witness ==
    /\ ret.op = "remove_all_lib_mappings"
    /\ \E a \in ret.resolvable : \A k \in kernel_libs : ~Covers(k, a)
    /\ \E a \in ret.resolvable : \E k \in kernel_libs : Covers(k, a)

IsPrefix(s, t) == Len(s) <= Len(t) /\ \A i \in 1 .. Len(s) : s[i] = t[i]
NoDuplicates(s) == \A i, j \in 1 .. Len(s) : s[i] = s[j] => i = j

\* C7: used indices are dense and follow first use: a resolution that hits a
\* library with an index returns that index and assigns nothing, one that
\* hits a library without an index gives it the next index (the number of
\* libraries used so far), and no step changes or reuses an assigned index.
C7_FirstUseOrder ==
    /\ []NoDuplicates(used_libs)
    /\ [][/\ IsPrefix(used_libs, used_libs')
          /\ (ret'.op = "convert_address" /\ ret'.value.kind = "InLib") =>
                \E m \in DecidingMappings(ret'.address) :
                    /\ ret'.value.global_lib_index \in 0 .. (Len(used_libs') - 1)
                    /\ used_libs'[ret'.value.global_lib_index + 1] = m.value
                    /\ IF InSeq(used_libs, m.value)
                       THEN /\ used_libs' = used_libs
                            /\ ret'.value.global_lib_index
                                   = IndexOf(used_libs, m.value) - 1
                       ELSE /\ used_libs' = Append(used_libs, m.value)
                            /\ ret'.value.global_lib_index = Len(used_libs)
         ]_vars

C7_Witness ==
    /\ ret.op = "convert_address"
    /\ ret.value.kind = "InLib"
    /\ ret.value.global_lib_index = 1
    /\ Len(used_libs) = 2
    /\ used_libs[1] = 2

\* C8: the used libraries change only in a resolution that hits a stored
\* mapping, and then only by the library of that mapping getting an index;
\* add_lib, the mapping mutators and a resolution to Unknown leave them as
\* they are.
C8_UsedOnlyOnHit ==
    [][/\ used_libs' # used_libs =>
            /\ ret'.op = "convert_address"
            /\ ret'.value.kind = "InLib"
            /\ \E m \in DecidingMappings(ret'.address) :
                   /\ ~InSeq(used_libs, m.value)
                   /\ used_libs' = Append(used_libs, m.value)
       /\ ret'.op \in {"add_lib", "add_lib_mapping", "remove_lib_mapping",
                       "remove_all_lib_mappings", "add_kernel_lib_mapping",
                       "remove_kernel_lib_mapping"} => used_libs' = used_libs
       /\ (ret'.op = "convert_address" /\ ret'.value.kind = "Unknown") =>
              used_libs' = used_libs
      ]_vars

C8_Witness ==
    /\ ret.op = "convert_address"
    /\ ret.value.kind = "Unknown"
    /\ Len(all_libs) = 2
    /\ Len(used_libs) = 1
    /\ \E m \in libs : ~InSeq(used_libs, m.value)

\* a pid sorts before another as text: at the first position where they
\* differ it has the smaller byte, or it is a proper prefix of the other
TextBefore(a, b) ==
    \E k \in 1 .. (Len(b)) :
        /\ k <= Len(a) + 1
        /\ \A i \in 1 .. (k - 1) : a[i] = b[i]
        /\ \/ k = Len(a) + 1
           \/ k <= Len(a) /\ CharCode(a[k]) < CharCode(b[k])

\* C9: cmp_for_json_order orders two processes by start time, the earlier
\* first; processes of equal start time are ordered by their pids compared as
\* text, so that pid "10" comes before pid "2". The names, end times, threads
\* and mappings of the two processes never influence the result.
C9_JsonOrder ==
    ret.op = "cmp_for_json_order" =>
        LET other == ret.other
        IN  /\ ret.value = "Less" <=>
                   \/ start_time < other.start_time
                   \/ start_time = other.start_time /\ TextBefore(pid, other.pid)
            /\ ret.value = "Greater" <=>
                   \/ start_time > other.start_time
                   \/ start_time = other.start_time /\ TextBefore(other.pid, pid)
            /\ ret.value = "Equal" <=>
                   start_time = other.start_time /\ pid = other.pid

\* a process of pid "10" that has a name, an end time and a thread of its own
\* was compared with one of pid "2", of the same start time and with another
\* name, end time, threads and mappings, and came first
C9_Witness ==
    /\ ret.op = "cmp_for_json_order"
    /\ pid = <<"1", "0">>
    /\ ret.other.pid = <<"2">>
    /\ start_time = ret.other.start_time
    /\ name = "b"
    /\ ret.other.name = "z"
    /\ threads # <<>>
    /\ end_time = Some(6)
    /\ ret.other.end_time = Some(5)
    /\ ret.value = "Less"

\* the thread of the first add_thread call that passed is_main = TRUE
FirstMainThread ==
    LET mains == {i \in 1 .. Len(is_main_history) : is_main_history[i]}
    IN  IF mains = {} THEN None
        ELSE Some(threads[CHOOSE i \in mains : \A j \in mains : i <= j])

\* C10: the main thread of a process is the thread of the first add_thread
\* call with is_main true (none before such a call); thread_handle_for_allocations
\* returns it; and once it is set no call changes it, neither a later add_thread
\* with is_main true nor any other mutator.
C10_MainThread ==
    /\ [](/\ main_thread = FirstMainThread
          /\ Len(is_main_history) = Len(threads)
          /\ ret.op = "thread_handle_for_allocations" =>
                 ret.value = FirstMainThread)
    /\ [][main_thread # None => main_thread' = main_thread]_vars

\* two threads were added with is_main true, the name, the times and the
\* mappings were set afterwards, and the first of the two is the main thread
C10_Witness ==
    /\ ret.op = "thread_handle_for_allocations"
    /\ is_main_history = <<TRUE, TRUE>>
    /\ threads[1] # threads[2]
    /\ main_thread = Some(threads[1])
    /\ name = "b"
    /\ end_time # None
    /\ start_time = 6
    /\ libs # {}

\* C11 as stated: the end time is absent at creation, and once set_end_time
\* has set it no later operation, another set_end_time included, changes or
\* clears it.
C11_Original ==
    /\ [](ret.op = "new" => end_time = None)
    /\ [][end_time # None => end_time' = end_time]_vars

\* C11 amended: the end time is absent at creation; set_end_time(t) sets it
\* to t, replacing an end time set before; no other operation changes it, and
\* once set it is never absent again.
C11_EndTime ==
    /\ [](ret.op = "new" => end_time = None)
    /\ [][/\ ret'.op = "set_end_time" => end_time' = Some(ret'.end_time)
          /\ ret'.op # "set_end_time" => end_time' = end_time
          /\ end_time # None => end_time' # None]_vars

\* set_end_time(6) was called on a process whose end time was 5
C11_Witness ==
    /\ ret.op = "set_end_time"
    /\ ret.replaced = Some(5)
    /\ ret.end_time = 6
    /\ end_time = Some(6)

\* C20: the thread list holds the handles passed to add_thread in call
\* order, one per call whatever the is_main flags: add_thread appends its
\* handle, no other call changes the list, and threads() returns it.
C20_ThreadOrder ==
    /\ [](/\ Len(threads) = Len(is_main_history)
          /\ ret.op = "threads" => ret.value = threads)
    /\ [][/\ ret'.op = "add_thread" => threads' = Append(threads, ret'.thread)
          /\ ret'.op # "add_thread" => threads' = threads]_vars

\* a thread added second with is_main true, and with a smaller handle than
\* the first, is returned second by threads(), after a name and an end time were set
C20_Witness ==
    /\ ret.op = "threads"
    /\ is_main_history = <<FALSE, TRUE>>
    /\ Len(ret.value) = 2
    /\ ret.value[2] < ret.value[1]
    /\ main_thread = Some(ret.value[2])
    /\ name = "b"
    /\ end_time # None

\* the positions of the spaces of a line
Spaces(line) == {i \in 1 .. Len(line) : line[i] = " "}
FirstSpaceOf(line) == CHOOSE i \in Spaces(line) : \A j \in Spaces(line) : i <= j
SecondSpaceOf(line) ==
    CHOOSE i \in Spaces(line) \ {FirstSpaceOf(line)} :
        \A j \in Spaces(line) \ {FirstSpaceOf(line)} : i <= j
\* the address field, the length field and the name of a line with two
\* spaces or more
AddressField(line) == SubSeq(line, 1, FirstSpaceOf(line) - 1)
LengthField(line) == SubSeq(line, FirstSpaceOf(line) + 1, SecondSpaceOf(line) - 1)
NameOf(line) == SubSeq(line, SecondSpaceOf(line) + 1, Len(line))

\* one or more hex digits, and the number they spell in base 16
AllHexDigits(s) == s # <<>> /\ \A i \in 1 .. Len(s) : IsHexDigit(s[i])
RECURSIVE HexValue(_)
HexValue(s) ==
    IF s = <<>> THEN 0
    ELSE 16 * HexValue(SubSeq(s, 1, Len(s) - 1)) + HexDigitValue(s[Len(s)])
\* a hexadecimal number: hex digits, with or without one "0x" before them
HexNumberDigits(s) ==
    IF Len(s) >= 2 /\ s[1] = "0" /\ s[2] = "x" THEN SubSeq(s, 3, Len(s)) ELSE s
IsHexNumber(s) == AllHexDigits(HexNumberDigits(s))
FitsU64(digits) == HexValue(digits) < U64Modulus

\* C12: a line "<hex address> <hex length> <name>", the two numbers fitting
\* 64 bits and the name not empty, parses to (address, length, name): the
\* numbers read in base 16 and the name the whole rest of the line after the
\* second space, further spaces included; "1000 20 foo" parses to
\* (0x1000, 0x20, "foo").
C12_ParseLine ==
    ret.op = "process_perf_map_line" =>
        /\ ( /\ Cardinality(Spaces(ret.line)) >= 2
             /\ IsHexNumber(AddressField(ret.line))
             /\ FitsU64(HexNumberDigits(AddressField(ret.line)))
             /\ IsHexNumber(LengthField(ret.line))
             /\ FitsU64(HexNumberDigits(LengthField(ret.line)))
             /\ NameOf(ret.line) # <<>> )
           => ret.value =
                  Some([addr |-> HexValue(HexNumberDigits(AddressField(ret.line))),
                        len |-> HexValue(HexNumberDigits(LengthField(ret.line))),
                        symbol_name |-> NameOf(ret.line)])
        /\ ret.line = <<"1", "0", "0", "0", " ", "2", "0", " ", "f", "o", "o">>
           => ret.value = Some([addr |-> 4096, len |-> 32,
                                symbol_name |-> <<"f", "o", "o">>])

\* "1000 20 g h" was parsed to (0x1000, 0x20, "g h")
C12_Witness ==
    /\ ret.op = "process_perf_map_line"
    /\ ret.line = <<"1", "0", "0", "0", " ", "2", "0", " ", "g", " ", "h">>
    /\ ret.value = Some([addr |-> 4096, len |-> 32,
                         symbol_name |-> <<"g", " ", "h">>])

IsAcceptedNumber(s) ==
    \E p \in 0 .. Len(s), q \in 0 .. 1 :
        /\ p % 2 = 0
        /\ \A i \in 1 .. p : s[i] = (IF i % 2 = 1 THEN "0" ELSE "x")
        /\ p + q <= Len(s)
        /\ q = 1 => s[p + 1] = "+"
        /\ AllHexDigits(SubSeq(s, p + q + 1, Len(s)))
        /\ FitsU64(SubSeq(s, p + q + 1, Len(s)))

WellFormed(line) ==
    /\ Cardinality(Spaces(line)) >= 2
    /\ NameOf(line) # <<>>
    /\ IsAcceptedNumber(AddressField(line))
    /\ IsAcceptedNumber(LengthField(line))

\* the file without its malformed lines
WithoutMalformed(file) == SelectSeq(file, WellFormed)

\* the load that ret reports had a file to read
Loaded == ret.op = "try_load_perf_map" /\ ret.file # None

\* the triples of the file of the load that ret reports
LoadedTriples == filter_map_lines(Unwrap(ret.file))

\* the loop's state of that load after its first n triples
LoadedAfter(n) ==
    LoopAfter(LoadedTriples, n, LoadedLibHandle, ret.recycler, ret.overflow_checks)

\* the symbol table that load handed to the profile
LoadedSymbols == ret.set_lib_symbol_table[1].symbols

\* C14: for every source text the loader processes every line to the end,
\* its mappings and symbol table are those of the same text without the
\* malformed lines, and a text of malformed lines only gives an empty
\* mapping set and an empty symbol table, with no error.
C14_MalformedSkipped ==
    Loaded =>
        /\ ~ret.panicked
        /\ ret.value # None
        /\ LET clean == try_load_perf_map(all_libs,
                                          Some(WithoutMalformed(Unwrap(ret.file))),
                                          ret.recycler, ret.overflow_checks)
           IN  /\ ret.value = clean.value
               /\ ret.set_lib_symbol_table = clean.set_lib_symbol_table
        /\ (\A i \in 1 .. Len(Unwrap(ret.file)) : ~WellFormed(Unwrap(ret.file)[i]))
           => /\ ret.value = Some({})
              /\ ret.set_lib_symbol_table =
                     <<[lib |-> LoadedLibHandle, symbols |-> <<>>]>>

\* the sum of the lengths of the first n triples
RECURSIVE SumOfLengths(_, _)
SumOfLengths(triples, n) ==
    IF n = 0 THEN 0 ELSE SumOfLengths(triples, n - 1) + triples[n].len

\* C15: in the symbol table the loader hands over, the i-th accepted triple
\* has the relative range [cursor_i, cursor_i + size_i) where cursor_1 = 0
\* and cursor_(i+1) = cursor_i + size_i, for all sizes: the ranges are
\* pairwise disjoint and the cursor never decreases.
C15_DisjointIncreasing ==
    (Loaded /\ ret.set_lib_symbol_table # <<>>) =>
        /\ Len(LoadedSymbols) = Len(LoadedTriples)
        /\ \A i \in 1 .. Len(LoadedSymbols) :
               LoadedSymbols[i].address = SumOfLengths(LoadedTriples, i - 1)
        /\ \A i, j \in 1 .. Len(LoadedSymbols) :
               i < j =>
                   /\ LoadedSymbols[i].address <= LoadedSymbols[j].address
                   /\ LoadedSymbols[i].address + LoadedTriples[i].len
                          <= LoadedSymbols[j].address

\* C16: for every accepted triple (true_address, size, name) the loader
\* registers a mapping that covers exactly [true_address, true_address + size)
\* and appends a symbol of size `size`, for every address and length the
\* parser accepts: the end address does not overflow or wrap and the size is
\* not truncated.
C16_ExactRange ==
    Loaded =>
        /\ ~ret.panicked
        /\ \A n \in 1 .. Len(LoadedTriples) :
               /\ \E m \in LoadedAfter(n).mappings :
                      /\ m.start_avma = LoadedTriples[n].addr
                      /\ m.end_avma = LoadedTriples[n].addr + LoadedTriples[n].len
               /\ Len(LoadedAfter(n).symbols) = n
               /\ LoadedAfter(n).symbols[n].size = Some(LoadedTriples[n].len)

\* C17: without a recycler the mapping registered for a triple carries the
\* fake library's handle and the cursor value before the triple; with a
\* recycler it carries the pair the recycler returned for (name, code size,
\* fake library's handle, cursor value); the cursor advance, the symbols and
\* the end of the loop are the same with and without the recycler.
C17_Recycler ==
    Loaded =>
        \A n \in 1 .. Len(LoadedTriples) :
            LET before == LoadedAfter(n - 1)
                after == LoadedAfter(n)
                plain == LoopAfter(LoadedTriples, n, LoadedLibHandle, None,
                                   ret.overflow_checks)
                triple == LoadedTriples[n]
                pair == IF ret.recycler = None
                        THEN <<LoadedLibHandle, before.cumulative_address>>
                        ELSE recycle(Unwrap(ret.recycler), triple.symbol_name,
                                     triple.len % U32Modulus, LoadedLibHandle,
                                     before.cumulative_address)
            IN  /\ after.panicked = plain.panicked
                /\ after.symbols = plain.symbols
                /\ after.cumulative_address = plain.cumulative_address
                /\ ~after.panicked =>
                       /\ \E m \in after.mappings :
                              /\ m.start_avma = triple.addr
                              /\ m.relative_address_at_start = pair[2]
                              /\ m.value = pair[1]
                       /\ after.symbols[n].address = before.cumulative_address

\* a load with a recycler that knows function f of size 2: the mapping of
\* line "0 2 f" carries the recycler's library and relative address, the
\* symbol of the line the cursor value 0
C17_Witness ==
    /\ Loaded
    /\ ret.recycler # None
    /\ ret.file = Some(<< <<"1", " ", "2", " ", "g", " ", "h">>,
                          <<"0", " ", "2", " ", "f">> >>)
    /\ LoadedLibHandle # 1
    /\ ret.value # None
    /\ map_convert_address(Unwrap(ret.value), 0) =
           Some([relative_address |-> 8, value |-> 1])
    /\ LoadedSymbols[2] = [address |-> 2, size |-> Some(2), name |-> <<"f">>]

\* C18: when the perf map file cannot be read the loader returns None
\* without failing, interns no library, sets no symbol table and changes
\* nothing else.
C18_AbsentSource ==
    [][(ret'.op = "try_load_perf_map" /\ ret'.file = None) =>
           /\ ret'.value = None
           /\ ~ret'.panicked
           /\ ret'.set_lib_symbol_table = <<>>
           /\ all_libs' = all_libs
           /\ UNCHANGED <<used_libs, libs, kernel_libs, process_fields>>]_vars

\* a load without a file in a profile that holds a library, none of them the
\* fake one
C18_Witness ==
    /\ ret.op = "try_load_perf_map"
    /\ ret.file = None
    /\ ret.value = None
    /\ all_libs # <<>>
    /\ ~InSeq(all_libs, PerfMapLibInfo)

\* C19: for every source that is present the loader interns the one fake
\* library and hands its symbol table to the profile exactly once, after the
\* last line; the table holds one symbol per accepted line, in the order of
\* the lines, and is handed over when it is empty too.
C19_SymbolTableOnce ==
    [][(ret'.op = "try_load_perf_map" /\ ret'.file # None) =>
           LET accepted == WithoutMalformed(Unwrap(ret'.file))
               calls == ret'.set_lib_symbol_table
           IN  /\ InSeq(all_libs', PerfMapLibInfo)
               /\ IsPrefix(all_libs, all_libs')
               /\ Len(all_libs') <= Len(all_libs) + 1
               /\ Len(calls) = 1
               /\ all_libs'[calls[1].lib] = PerfMapLibInfo
               /\ Len(calls[1].symbols) = Len(accepted)
               /\ \A i \in 1 .. Len(accepted) :
                      calls[1].symbols[i].name = NameOf(accepted[i])]_vars

\* --------------------------------------------------- properties of Xperf
\* the last call was stop_xperf, made by the caller or by Drop
StopCalled(r) == r.op \in {"stop_xperf", "drop"}

\* C21: after any call of stop_xperf the state is Stopped and is_running()
\* is false, whether the call returned Ok, returned Err (xperf not found, an
\* unmerged file not deleted) or did not return; so a stop_xperf that follows
\* a stop_xperf with no start_xperf in between returns an error.
C21_StoppedAfterStop ==
    /\ [](StopCalled(ret) =>
              /\ xperf_state = Stopped
              /\ ~is_running(xperf_state))
    /\ [][(StopCalled(ret) /\ StopCalled(ret')) =>
              /\ ~ret'.panicked
              /\ is_err(ret'.value)]_vars

\* a stop_xperf on a session that records both files, which returns the
\* error of the user file that was not deleted
C21_Witness ==
    /\ ret.op = "stop_xperf"
    /\ ret.prev_state[1] = "RecordingKernelAndUserToFile"
    /\ ~ret.panicked
    /\ is_err(ret.value)
    /\ ret.value[2][1] = "Failed to delete unmerged ETL file"
    /\ Len(ret.removed) = 1
    /\ xperf_state = Stopped

\* C22: stop_xperf called while the state is Stopped, by the caller or by
\* Drop, on a fresh Xperf or on a stopped one, returns the error
\* "xperf wasn't running, can't stop it", executes no xperf command, deletes
\* no file and leaves the state Stopped.
C22_StopWhileStopped ==
    (StopCalled(ret) /\ ret.prev_state[1] = "Stopped") =>
        /\ ~ret.panicked
        /\ is_err(ret.value)
        /\ ret.value[2] = <<"xperf wasn't running, can't stop it">>
        /\ ret.commands = <<>>
        /\ ret.removed = <<>>
        /\ xperf_state = Stopped

\* the Drop of an Xperf that is stopped and knows where xperf is
C22_Witness ==
    /\ ret.op = "drop"
    /\ ret.prev_state[1] = "Stopped"
    /\ xperf_path # None
    /\ is_err(ret.value)
    /\ ret.commands = <<>>

\* the command that starts a session, if the last call executed one
StartCommands(r) ==
    {i \in 1 .. Len(r.commands) : r.commands[i].verb = "-SetProfInt"}

\* C23: start_xperf called while a session is recording stops that session
\* (the xperf -stop that merges its kernel file) before it issues the new
\* start, and the state tracks the new session only; a start_xperf that
\* returns Ok leaves is_running() true and the state holding the new kernel
\* ETL path, with the user ETL path exactly when there are user providers;
\* a start_xperf that returns Err leaves the state Stopped.
C23_StartXperf ==
    ret.op = "start_xperf" =>
        LET kernel_etl_file == <<ret.output_path[1], "unmerged-etl">>
            user_etl_file == <<ret.output_path[1], "user-unmerged-etl">>
        IN  /\ is_running(ret.prev_state) =>
                   \A i \in StartCommands(ret) :
                       /\ i = 2
                       /\ ret.commands[1].verb = "-stop"
                       /\ ret.commands[1].d = <<ret.prev_state[2][1], "etl">>
                       /\ (ret.commands[1].stop # None)
                              = (ret.prev_state[1]
                                     = "RecordingKernelAndUserToFile")
            /\ ~is_running(ret.prev_state) =>
                   \A i \in 1 .. Len(ret.commands) :
                       ret.commands[i].verb # "-stop"
            /\ (~ret.panicked /\ is_ok(ret.value)) =>
                   /\ is_running(xperf_state)
                   /\ StartCommands(ret) # {}
                   /\ xperf_state[2] = kernel_etl_file
                   /\ (xperf_state[1] = "RecordingKernelAndUserToFile")
                          = (ret.props.user_providers # <<>>)
                   /\ xperf_state[1] = "RecordingKernelAndUserToFile"
                          => xperf_state[3] = user_etl_file
            /\ (~ret.panicked /\ is_err(ret.value)) =>
                   /\ xperf_state = Stopped
                   /\ ~is_running(xperf_state)

\* a start with user providers on an Xperf that records another output's
\* kernel file
C23_Witness ==
    /\ ret.op = "start_xperf"
    /\ ret.prev_state[1] = "RecordingKernelToFile"
    /\ ~ret.panicked
    /\ is_ok(ret.value)
    /\ ret.props.user_providers # <<>>
    /\ Len(ret.commands) = 2
    /\ xperf_state[1] = "RecordingKernelAndUserToFile"
    /\ xperf_state[2] # ret.prev_state[2]

\* the number a string of decimal digits spells
TickCount(digits) == DecimalNumber(digits, 0)

\* C24: the sampling interval start_xperf hands to xperf -SetProfInt is
\* max(interval_nanos, 122100) / 100 ticks, rounded down: at least 1221 for
\* every request, and the request divided by 100 when it is 122100 ns or
\* more.
C24_IntervalTicks ==
    ret.op = "start_xperf" =>
        \A i \in StartCommands(ret) :
            LET ticks == TickCount(ret.commands[i].SetProfInt)
                requested == ret.props.interval_nanos
            IN  /\ ticks = Max2(requested, 122100) \div 100
                /\ ticks >= 1221
                /\ requested >= 122100 => ticks = requested \div 100

\* a request one nanosecond under the minimum is started with 1221 ticks
C24_Witness ==
    /\ ret.op = "start_xperf"
    /\ ret.props.interval_nanos = 122099
    /\ \E i \in StartCommands(ret) :
           ret.commands[i].SetProfInt = <<"1", "2", "2", "1">>

\* ------------------------------------------------------ properties of run
\* the positions of the events of one kind in the history
EventIndices(kind) == {i \in 1 .. Len(events) : events[i][1] = kind}

\* C25: in Launch mode run starts xperf before it spawns a child and stops
\* it only after the launch loop has ended; the children are spawned one at
\* a time, each after the exit of the one before it, at most iteration_count
\* of them, and none after the first child that exits unsuccessfully unless
\* ignore_exit_code is set; the included pid list is the pids of the
\* children spawned, in spawn order, the failed one included.
C25_LaunchLoop ==
    (recording_mode[1] = "Launch" /\ events # <<>>) =>
        LET props == recording_mode[2]
            spawns == EventIndices("spawn")
        IN  \* xperf is started first and once
            /\ EventIndices("start_xperf") = {1}
            \* and stopped last, after the loop
            /\ \A i \in EventIndices("stop_xperf") :
                   /\ i = Len(events)
                   /\ pc \in {"process_etl", "panicked"}
                   /\ child = None
                   /\ included_processes # None
            /\ pc \in {"for", "wait", "after_loop"}
                   => EventIndices("stop_xperf") = {}
            \* a child is spawned after xperf started or the child before
            \* it exited, and the child that exits is the one spawned last
            /\ \A i \in spawns :
                   /\ i > 1
                   /\ events[i - 1][1] \in {"start_xperf", "exit"}
            /\ \A i \in EventIndices("exit") :
                   /\ i > 1
                   /\ events[i - 1][1] = "spawn"
                   /\ events[i - 1][2] = events[i][2]
            /\ (events[Len(events)][1] = "spawn") = (child # None)
            /\ child # None
                   => /\ pc \in {"wait", "panicked"}
                      /\ child = Some(events[Len(events)][2])
            /\ Cardinality(spawns) <= props.iteration_count
            /\ \A i \in EventIndices("exit") :
                   (~events[i][3] /\ ~props.ignore_exit_code)
                       => \A j \in spawns : j < i
            \* the pid list is the spawned pids in spawn order
            /\ Len(pids) = Cardinality(spawns)
            /\ Len(events) >= 2 * Len(pids)
            /\ \A k \in 1 .. Len(pids) :
                   /\ events[2 * k][1] = "spawn"
                   /\ events[2 * k][2] = pids[k]
            /\ pc \in {"stop_xperf", "process_etl"}
                   => included_processes # None
            /\ included_processes # None
                   => /\ Unwrap(included_processes).name_substrings = <<>>
                      /\ Unwrap(included_processes).pids = pids

\* a launch of three iterations whose second child fails: two children
\* were spawned, both are included, and xperf was stopped
C25_Witness ==
    /\ recording_mode[1] = "Launch"
    /\ recording_mode[2].iteration_count = 3
    /\ ~recording_mode[2].ignore_exit_code
    /\ pc = "process_etl"
    /\ Len(events) = 6
    /\ events[3][3]
    /\ ~events[5][3]
    /\ included_processes # None
    /\ Len(Unwrap(included_processes).pids) = 2
    /\ Unwrap(included_processes).pids[2] = events[4][2]

====
